---- MODULE Spec2Model ----
(***************************************************************************)
(* A model of the Commodore 64 BASIC detokenizer of this repository:       *)
(*   - Parser._detokenize_line  (src/scripts/parser.py), the walk over the *)
(*     binary line records of a tokenized file;                            *)
(*   - Parser._lex_line and its sub-lexers, the per-line stateful lexer;   *)
(*   - BASICToken (src/scripts/basics.py), the token value object and its  *)
(*     chunking operators;                                                 *)
(*   - Tagger (src/scripts/tagger.py);                                     *)
(*   - BASICFile.add_line / save_file (src/scripts/basics.py).             *)
(*                                                                         *)
(* Text (Python str) is a sequence of one-character strings; a byte string *)
(* is a sequence of integers 0..255.  scripts/petscii.py and               *)
(* scripts/tagset.json are not part of the source tree at hand: the lookup *)
(* tables and the tag strings below follow the written specification.      *)
(***************************************************************************)
EXTENDS Integers, Sequences, FiniteSets, TLC

(***************************************************************************)
(* Bounds of the model.                                                    *)
(***************************************************************************)
\* longest payload handed to _lex_line under Spec
MaxLen == 3

\* longest payload under SpecReuse, SpecData and SpecFile
MaxLenReuse == 3

MaxLenData == 4

MaxLenPrint == 5

\* longest payload under SpecEq
MaxLenEq == 4

\* longest payload under SpecErrors
MaxLenErr == 3

\* longest payload under SpecSys
MaxLenSys == 4

\* most bytes of a token that is still an operand under SpecTok
MaxChunk == 2

\* longest file buffer handed to _detokenize_line under SpecDetok
MaxBuf == 13

(***************************************************************************)
(* scripts/petscii.py: lookup tables.                                      *)
(***************************************************************************)
\* BYTE_TO_CMD: keyword byte -> keyword spelling (BASIC v2, 0x80 .. 0xCB).
BYTE_TO_CMD ==
       (128 :> <<"E", "N", "D">>)
    @@ (129 :> <<"F", "O", "R">>)
    @@ (130 :> <<"N", "E", "X", "T">>)
    @@ (131 :> <<"D", "A", "T", "A">>)
    @@ (132 :> <<"I", "N", "P", "U", "T", "#">>)
    @@ (133 :> <<"I", "N", "P", "U", "T">>)
    @@ (134 :> <<"D", "I", "M">>)
    @@ (135 :> <<"R", "E", "A", "D">>)
    @@ (136 :> <<"L", "E", "T">>)
    @@ (137 :> <<"G", "O", "T", "O">>)
    @@ (138 :> <<"R", "U", "N">>)
    @@ (139 :> <<"I", "F">>)
    @@ (140 :> <<"R", "E", "S", "T", "O", "R", "E">>)
    @@ (141 :> <<"G", "O", "S", "U", "B">>)
    @@ (142 :> <<"R", "E", "T", "U", "R", "N">>)
    @@ (143 :> <<"R", "E", "M">>)
    @@ (144 :> <<"S", "T", "O", "P">>)
    @@ (145 :> <<"O", "N">>)
    @@ (146 :> <<"W", "A", "I", "T">>)
    @@ (147 :> <<"L", "O", "A", "D">>)
    @@ (148 :> <<"S", "A", "V", "E">>)
    @@ (149 :> <<"V", "E", "R", "I", "F", "Y">>)
    @@ (150 :> <<"D", "E", "F">>)
    @@ (151 :> <<"P", "O", "K", "E">>)
    @@ (152 :> <<"P", "R", "I", "N", "T", "#">>)
    @@ (153 :> <<"P", "R", "I", "N", "T">>)
    @@ (154 :> <<"C", "O", "N", "T">>)
    @@ (155 :> <<"L", "I", "S", "T">>)
    @@ (156 :> <<"C", "L", "R">>)
    @@ (157 :> <<"C", "M", "D">>)
    @@ (158 :> <<"S", "Y", "S">>)
    @@ (159 :> <<"O", "P", "E", "N">>)
    @@ (160 :> <<"C", "L", "O", "S", "E">>)
    @@ (161 :> <<"G", "E", "T">>)
    @@ (162 :> <<"N", "E", "W">>)
    @@ (163 :> <<"T", "A", "B", "(">>)
    @@ (164 :> <<"T", "O">>)
    @@ (165 :> <<"F", "N">>)
    @@ (166 :> <<"S", "P", "C", "(">>)
    @@ (167 :> <<"T", "H", "E", "N">>)
    @@ (168 :> <<"N", "O", "T">>)
    @@ (169 :> <<"S", "T", "E", "P">>)
    @@ (170 :> <<"+">>)
    @@ (171 :> <<"-">>)
    @@ (172 :> <<"*">>)
    @@ (173 :> <<"/">>)
    @@ (174 :> <<"^">>)
    @@ (175 :> <<"A", "N", "D">>)
    @@ (176 :> <<"O", "R">>)
    @@ (177 :> <<">">>)
    @@ (178 :> <<"=">>)
    @@ (179 :> <<"<">>)
    @@ (180 :> <<"S", "G", "N">>)
    @@ (181 :> <<"I", "N", "T">>)
    @@ (182 :> <<"A", "B", "S">>)
    @@ (183 :> <<"U", "S", "R">>)
    @@ (184 :> <<"F", "R", "E">>)
    @@ (185 :> <<"P", "O", "S">>)
    @@ (186 :> <<"S", "Q", "R">>)
    @@ (187 :> <<"R", "N", "D">>)
    @@ (188 :> <<"L", "O", "G">>)
    @@ (189 :> <<"E", "X", "P">>)
    @@ (190 :> <<"C", "O", "S">>)
    @@ (191 :> <<"S", "I", "N">>)
    @@ (192 :> <<"T", "A", "N">>)
    @@ (193 :> <<"A", "T", "N">>)
    @@ (194 :> <<"P", "E", "E", "K">>)
    @@ (195 :> <<"L", "E", "N">>)
    @@ (196 :> <<"S", "T", "R", "$">>)
    @@ (197 :> <<"V", "A", "L">>)
    @@ (198 :> <<"A", "S", "C">>)
    @@ (199 :> <<"C", "H", "R", "$">>)
    @@ (200 :> <<"L", "E", "F", "T", "$">>)
    @@ (201 :> <<"R", "I", "G", "H", "T", "$">>)
    @@ (202 :> <<"M", "I", "D", "$">>)
    @@ (203 :> <<"G", "O">>)

\* BYTE_TO_CTRL: non-printable PETSCII byte -> {name} glyph (petcat names).
BYTE_TO_CTRL ==
       (5 :> <<"{", "w", "h", "t", "}">>)
    @@ (17 :> <<"{", "d", "o", "w", "n", "}">>)
    @@ (18 :> <<"{", "r", "v", "o", "n", "}">>)
    @@ (19 :> <<"{", "h", "o", "m", "e", "}">>)
    @@ (20 :> <<"{", "d", "e", "l", "}">>)
    @@ (28 :> <<"{", "r", "e", "d", "}">>)
    @@ (29 :> <<"{", "r", "g", "h", "t", "}">>)
    @@ (30 :> <<"{", "g", "r", "n", "}">>)
    @@ (31 :> <<"{", "b", "l", "u", "}">>)
    @@ (129 :> <<"{", "o", "r", "n", "g", "}">>)
    @@ (144 :> <<"{", "b", "l", "k", "}">>)
    @@ (145 :> <<"{", "u", "p", "}">>)
    @@ (146 :> <<"{", "r", "v", "o", "f", "}">>)
    @@ (147 :> <<"{", "c", "l", "r", "}">>)
    @@ (148 :> <<"{", "i", "n", "s", "t", "}">>)
    @@ (157 :> <<"{", "l", "e", "f", "t", "}">>)
    @@ (158 :> <<"{", "y", "e", "l", "}">>)
    @@ (159 :> <<"{", "c", "y", "n", "}">>)

\* ASCII_CODES: the partition of the printable range into character classes.
ASCII_CODES ==
    [ number      |-> 48 .. 57,
      letter      |-> (65 .. 90) \cup (97 .. 122),
      sigil       |-> {36, 37},
      punctuation |-> (32 .. 127) \ ((48 .. 57) \cup (65 .. 90) \cup (97 .. 122) \cup {36, 37}) ]

\* ASSEMBLY_CHARS: hex digits, comma, space, dollar sign.
ASSEMBLY_CHARS ==
    { "0", "1", "2", "3", "4", "5", "6", "7", "8", "9",
      "a", "b", "c", "d", "e", "f", "A", "B", "C", "D", "E", "F",
      ",", " ", "$" }

(***************************************************************************)
(* scripts/tagset.json: category -> subcategory -> tag.                    *)
(***************************************************************************)
tagset ==
    [ commands     |-> [ keyword    |-> [tag |-> <<"C">>] ],
      constants    |-> [ constant   |-> [tag |-> <<"K">>] ],
      operators    |-> [ arithmetic |-> [tag |-> <<"O", "A">>],
                         relational |-> [tag |-> <<"O", "R">>],
                         logical    |-> [tag |-> <<"O", "L">>],
                         assignment |-> [tag |-> <<"O", "=">>],
                         unary      |-> [tag |-> <<"O", "U">>] ],
      strings      |-> [ string     |-> [tag |-> <<"S", "S">>],
                         comment    |-> [tag |-> <<"S", "C">>],
                         print      |-> [tag |-> <<"S", "P">>] ],
      numbers      |-> [ integer    |-> [tag |-> <<"N", "I">>],
                         real       |-> [tag |-> <<"N", "R">>] ],
      variables    |-> [ real       |-> [tag |-> <<"V", "R">>],
                         integer    |-> [tag |-> <<"V", "I">>],
                         string     |-> [tag |-> <<"V", "S">>] ],
      punctuations |-> [ type       |-> [tag |-> <<"P", "T">>],
                         other      |-> [tag |-> <<"P", "O">>] ],
      data         |-> [ data       |-> [tag |-> <<"D">>] ],
      system       |-> [ time       |-> [tag |-> <<"Y", "T">>],
                         IO         |-> [tag |-> <<"Y", "I">>] ],
      unknown      |-> [ unknown    |-> [tag |-> <<"U">>] ] ]

(***************************************************************************)
(* Python built-ins on characters and byte strings.                        *)
(***************************************************************************)
\* chr(v) for v in 0 .. 127, at index v + 1; a non-printable character and
\* the grave accent are written <hh>.
ChrTable ==
    <<
       "<00>", "<01>", "<02>", "<03>", "<04>", "<05>", "<06>", "<07>",
       "<08>", "<09>", "<0A>", "<0B>", "<0C>", "<0D>", "<0E>", "<0F>",
       "<10>", "<11>", "<12>", "<13>", "<14>", "<15>", "<16>", "<17>",
       "<18>", "<19>", "<1A>", "<1B>", "<1C>", "<1D>", "<1E>", "<1F>",
       " ", "!", "\"", "#", "$", "%", "&", "'",
       "(", ")", "*", "+", ",", "-", ".", "/",
       "0", "1", "2", "3", "4", "5", "6", "7",
       "8", "9", ":", ";", "<", "=", ">", "?",
       "@", "A", "B", "C", "D", "E", "F", "G",
       "H", "I", "J", "K", "L", "M", "N", "O",
       "P", "Q", "R", "S", "T", "U", "V", "W",
       "X", "Y", "Z", "[", "\\", "]", "^", "_",
       "<60>", "a", "b", "c", "d", "e", "f", "g",
       "h", "i", "j", "k", "l", "m", "n", "o",
       "p", "q", "r", "s", "t", "u", "v", "w",
       "x", "y", "z", "{", "|", "}", "~", "<7F>"
    >>

chr(v) == ChrTable[v + 1]

UpperLetters ==
    << "A", "B", "C", "D", "E", "F", "G", "H", "I", "J", "K", "L", "M",
       "N", "O", "P", "Q", "R", "S", "T", "U", "V", "W", "X", "Y", "Z" >>

LowerLetters ==
    << "a", "b", "c", "d", "e", "f", "g", "h", "i", "j", "k", "l", "m",
       "n", "o", "p", "q", "r", "s", "t", "u", "v", "w", "x", "y", "z" >>

\* str.lower() on one character
lower_chr(ch) ==
    IF \E i \in 1 .. 26 : UpperLetters[i] = ch
    THEN LowerLetters[CHOOSE i \in 1 .. 26 : UpperLetters[i] = ch]
    ELSE ch

\* str.lower()
lower(s) == [i \in 1 .. Len(s) |-> lower_chr(s[i])]

\* string.ascii_letters
ascii_letters ==
    {UpperLetters[i] : i \in 1 .. 26} \cup {LowerLetters[i] : i \in 1 .. 26}

HexDigits ==
    << "0", "1", "2", "3", "4", "5", "6", "7",
       "8", "9", "a", "b", "c", "d", "e", "f" >>

\* f"{v:02x}"
hex02(v) == << HexDigits[(v \div 16) + 1], HexDigits[(v % 16) + 1] >>

\* The replacement character U+FFFD, one character.
replacement_char == << "<U+FFFD>" >>

\* bytes([v]).decode("ascii", errors="replace")
decode_ascii_replace(v) == IF v < 128 THEN << chr(v) >> ELSE replacement_char

\* str(bytes([v])): the repr of a one-byte bytes object
str_of_byte(v) ==
    LET esc(c) == << "b", "'", "\\", c, "'" >>
    IN  IF v = 9 THEN esc("t")
        ELSE IF v = 10 THEN esc("n")
        ELSE IF v = 13 THEN esc("r")
        ELSE IF v = 39 THEN << "b", "\"", "'", "\"" >>
        ELSE IF v = 92 THEN << "b", "'", "\\", "\\", "'" >>
        ELSE IF v \in 32 .. 126 THEN << "b", "'", chr(v), "'" >>
        ELSE << "b", "'", "\\", "x" >> \o hex02(v) \o << "'" >>

\* dict.get(key, default) on the two byte-keyed tables
ctrl_get(v, default) == IF v \in DOMAIN BYTE_TO_CTRL THEN BYTE_TO_CTRL[v] ELSE default

\* A command table without entries.
cmd_get_default(v, default) == default

cmd_get(v, default) == IF v \in DOMAIN BYTE_TO_CMD THEN BYTE_TO_CMD[v] ELSE default

\* str.startswith(prefix) for a one-character prefix
startswith(s, ch) == Len(s) > 0 /\ s[1] = ch

(***************************************************************************)
(* scripts/basics.py: BASICToken.                                          *)
(***************************************************************************)
\* BASICToken.__init__(value, lineno): a token seeded by one byte.
BASICToken(value, lineno) ==
    [ value     |-> value,
      lineno    |-> lineno,
      byte      |-> << value >>,
      byte_repr |-> << "0", "x" >> \o hex02(value),
      token     |-> << >>,
      syntax    |-> << >>,
      language  |-> "BASIC" ]

\* A check of the line numbers only.
add_check_lineno_only(self, other) ==
    IF self.lineno # other.lineno THEN "ValueError"
    ELSE "none"

\* BASICToken._add_check_other: the exception raised, or "none".
_add_check_other(self, other) ==
    IF self.lineno # other.lineno THEN "ValueError"
    ELSE IF self.language # other.language THEN "ValueError"
    ELSE "none"

\* BASICToken.__add__: a new token; syntax and language are the defaults.
__add__(self, other) ==
    [ value     |-> self.value,
      lineno    |-> self.lineno,
      byte      |-> self.byte \o other.byte,
      byte_repr |-> self.byte_repr \o other.byte_repr,
      token     |-> self.token \o << " " >> \o other.token,
      syntax    |-> << >>,
      language  |-> "BASIC" ]

\* BASICToken.__iadd__: self, mutated in place.
__iadd__(self, other) ==
    [ self EXCEPT
        !.value     = other.value,
        !.byte      = self.byte \o other.byte,
        !.byte_repr = self.byte_repr \o << " " >> \o other.byte_repr,
        !.token     = self.token \o other.token ]

is_whitespace(t) == t.byte = << 32 >>

is_digit(t) == t.value \in ASCII_CODES.number

is_letter(t) == t.value \in ASCII_CODES.letter

is_punctuation(t) == t.value \in ASCII_CODES.punctuation

is_sigil(t) == t.value \in ASCII_CODES.sigil

is_alpha(t) == IF t.token = << >> THEN FALSE ELSE t.token[1] \in ascii_letters

(***************************************************************************)
(* scripts/tagger.py: Tagger.                                              *)
(***************************************************************************)
\* Tagger.asciiCodes.get(value, "unknown")
asciiCodes(v) ==
    IF v \in ASCII_CODES.number THEN "number"
    ELSE IF v \in ASCII_CODES.letter THEN "letter"
    ELSE IF v \in ASCII_CODES.punctuation THEN "punctuation"
    ELSE IF v \in ASCII_CODES.sigil THEN "sigil"
    ELSE "unknown"

parse_string(btoken) == tagset.strings.string.tag

parse_comment(btoken) == tagset.strings.comment.tag

parse_ascii(btoken, decoded_tokens) ==
    LET ascii_type == asciiCodes(btoken.value)
    IN  CASE ascii_type = "letter" -> tagset.variables.real.tag
          [] ascii_type = "number" ->
                IF decoded_tokens # << >>
                   /\ decoded_tokens[Len(decoded_tokens)].token = << "." >>
                THEN tagset.numbers.real.tag
                ELSE tagset.numbers.integer.tag
          [] ascii_type = "sigil" -> tagset.punctuations.type.tag
          [] ascii_type = "punctuation" ->
                IF btoken.token \in { << "$" >>, << "%" >> }
                THEN tagset.punctuations.type.tag
                ELSE tagset.punctuations.other.tag
          [] OTHER -> << "u", "n", "k", "n", "o", "w", "n" >>

_parse_operator(btoken) ==
    IF btoken.value \in {170, 171, 172, 173, 174} THEN tagset.operators.arithmetic.tag
    ELSE IF btoken.value \in {177, 178, 179} THEN tagset.operators.relational.tag
    ELSE IF btoken.value \in {168, 175, 176} THEN tagset.operators.logical.tag
    ELSE << >>

parse_command(btoken) ==
    IF _parse_operator(btoken) # << >> THEN _parse_operator(btoken)
    ELSE IF \E k \in DOMAIN BYTE_TO_CMD : BYTE_TO_CMD[k] = btoken.token
         THEN tagset.commands.keyword.tag
    ELSE tagset.unknown.unknown.tag

(***************************************************************************)
(* scripts/parser.py: the sub-lexers of Parser._lex_line.                  *)
(*                                                                         *)
(* A sub-lexer maps a context c to a context.  c holds the per-line        *)
(* attributes of the Parser (comment_cmd, print_cmd, string_decl,          *)
(* is_data_block, parenthesis, last_char, append_btoken, decoded_tokens),  *)
(* its replace_error option, the token btoken of the byte at hand and exc, *)
(* the exception raised so far ("none" when none).  last_char is a         *)
(* reference: 0 stands for None, n > 0 for the object decoded_tokens[n],   *)
(* so a change made through decoded_tokens[-1] is seen through last_char.  *)
(***************************************************************************)
\* the object self.last_char refers to (when it is not None)
last_char_of(c) == c.decoded_tokens[c.last_char]

\* self.decoded_tokens[-1]
last_decoded(c) == c.decoded_tokens[Len(c.decoded_tokens)]

\* A lexer whose PRINT lines are not string-like: only strings and comments
\* keep their spaces.
within_string_or_comment(c) ==
    c.comment_cmd \/ c.string_decl

_within_string_like_expression(c) ==
    c.print_cmd \/ c.comment_cmd \/ c.string_decl

_belongs_to_previous_byte(c) ==
    IF c.last_char = 0 THEN FALSE
    ELSE \/ is_letter(c.btoken) /\ is_letter(last_char_of(c))
         \/ is_digit(c.btoken) /\ is_digit(last_char_of(c))
         \/ is_digit(c.btoken) /\ is_letter(last_char_of(c))
         \/ c.string_decl
         \/ is_sigil(c.btoken) /\ startswith(last_char_of(c).syntax, "V")

_disambiguate_dot(c) ==
    IF c.last_char = 0 THEN c
    ELSE IF c.btoken.token = << "." >> /\ is_digit(last_char_of(c))
         THEN [c EXCEPT !.btoken.syntax = tagset.numbers.real.tag,
                        !.decoded_tokens[Len(c.decoded_tokens)].syntax = tagset.numbers.real.tag,
                        !.append_btoken = FALSE]
    ELSE IF last_char_of(c).token = << >>
         THEN [c EXCEPT !.exc = "IndexError"]
    ELSE IF last_char_of(c).token[Len(last_char_of(c).token)] = "."
         THEN [c EXCEPT !.btoken.syntax = tagset.numbers.real.tag,
                        !.decoded_tokens[Len(c.decoded_tokens)].syntax = tagset.numbers.real.tag,
                        !.append_btoken = FALSE]
    ELSE c

\* An equal sign that is relational whenever an IF stands before it.
equal_sign_after_any_if(c) ==
    IF \E i \in 1 .. Len(c.decoded_tokens) : c.decoded_tokens[i].token = << "I", "F" >>
    THEN [c EXCEPT !.btoken.syntax = parse_command(c.btoken)]
    ELSE [c EXCEPT !.btoken.syntax = tagset.operators.assignment.tag]

_disambiguate_equal_sign(c) ==
    LET n == Len(c.decoded_tokens)
        stops == { << "I", "F" >>, << ":" >>, << ";" >>, << "T", "H", "E", "N" >> }
        \* positions, scanning from the last token, at which the loop breaks
        hits == { i \in 1 .. n : c.decoded_tokens[i].token \in stops }
        first == CHOOSE i \in hits : \A j \in hits : j <= i
    IN  IF hits # {} /\ c.decoded_tokens[first].token = << "I", "F" >>
        THEN [c EXCEPT !.btoken.syntax = parse_command(c.btoken)]
        ELSE [c EXCEPT !.btoken.syntax = tagset.operators.assignment.tag]

\* an exception raised on the way ends the call: F is not run
unless_raised(c, F(_)) == IF c.exc # "none" THEN c ELSE F(c)

\* _decode_cmd with line 236 written as
\* self.print_cmd = btoken.value in (0x98, 0x99)
decode_cmd_flags_print_of_last(c) ==
    LET b == c.btoken
        relational == {177, 178, 179}
        chunk == /\ b.value \in relational
                 /\ c.last_char # 0
                 /\ last_char_of(c).value \in relational
                 /\ b.value # last_char_of(c).value
    IN  [c EXCEPT
           !.append_btoken = ~chunk,
           !.is_data_block =
               IF ~chunk /\ b.value = 131 /\ c.decoded_tokens = << >>
               THEN TRUE ELSE c.is_data_block,
           !.print_cmd = (b.value \in {152, 153}),
           !.comment_cmd = (b.value \in {143})]

\* _decode_cmd, lines 224-237: chunking of relational bytes and the flags
decode_cmd_flags(c) ==
    LET b == c.btoken
        relational == {177, 178, 179}
        chunk == /\ b.value \in relational
                 /\ c.last_char # 0
                 /\ last_char_of(c).value \in relational
                 /\ b.value # last_char_of(c).value
    IN  [c EXCEPT
           !.append_btoken = ~chunk,
           !.is_data_block =
               IF ~chunk /\ b.value = 131 /\ c.decoded_tokens = << >>
               THEN TRUE ELSE c.is_data_block,
           !.print_cmd = IF ~c.print_cmd THEN b.value \in {152, 153} ELSE c.print_cmd,
           !.comment_cmd = (b.value \in {143})]

\* _decode_cmd, lines 249-253: the tag of a keyword token
decode_cmd_tag(c) ==
    IF c.btoken.value = 178 /\ c.decoded_tokens # << >>
    THEN _disambiguate_equal_sign([c EXCEPT !.btoken.syntax = parse_command(c.btoken)])
    ELSE [c EXCEPT !.btoken.syntax = parse_command(c.btoken)]

\* _decode_cmd, lines 239-253: text and tag
decode_cmd_text(c) ==
    IF c.string_decl
    THEN [c EXCEPT !.btoken.token = ctrl_get(c.btoken.value, str_of_byte(c.btoken.value)),
                   !.btoken.syntax = parse_string(c.btoken),
                   !.append_btoken = FALSE]
    ELSE IF ~c.replace_error /\ c.btoken.value \notin DOMAIN BYTE_TO_CMD
    THEN [c EXCEPT !.exc = "KeyError"]
    ELSE decode_cmd_tag([c EXCEPT !.btoken.token = cmd_get(c.btoken.value, replacement_char)])

_decode_cmd(c) == decode_cmd_text(decode_cmd_flags(c))

\* _decode_ascii, lines 322-330: text, first tag, and whether to chunk
decode_ascii_text(c) ==
    LET token == lower(<< chr(c.btoken.value) >>)
        b == [c.btoken EXCEPT !.token = token]
        tagged == [c EXCEPT !.btoken.token = token,
                            !.btoken.syntax = parse_ascii(b, c.decoded_tokens)]
    IN  [tagged EXCEPT !.append_btoken = ~_belongs_to_previous_byte(tagged)]

\* _decode_ascii with an opening quote that sets string_decl and leaves the
\* counter at 0
decode_ascii_quote_uncounted(c) ==
    IF c.btoken.byte = << 34 >>
    THEN [c EXCEPT !.string_decl = TRUE]
    ELSE c

\* _decode_ascii, lines 332-338: a double quote opens or closes a string
decode_ascii_quote(c) ==
    IF c.btoken.byte = << 34 >>
    THEN IF c.parenthesis + 1 = 2
         THEN [c EXCEPT !.parenthesis = 0, !.string_decl = FALSE]
         ELSE [c EXCEPT !.parenthesis = c.parenthesis + 1, !.string_decl = TRUE]
    ELSE c

\* _decode_ascii, lines 340-356: the tag by the kind of character
decode_ascii_retag(c) ==
    LET n == Len(c.decoded_tokens)
    IN  IF c.string_decl
        THEN [c EXCEPT !.btoken.syntax = parse_string(c.btoken)]
        ELSE IF is_digit(c.btoken) \/ c.btoken.token = << "." >>
        THEN _disambiguate_dot(c)
        ELSE IF is_sigil(c.btoken)
        THEN IF n > 0 /\ is_alpha(c.decoded_tokens[n])
             THEN IF c.btoken.token = << "$" >>
                  THEN [c EXCEPT !.decoded_tokens[n].syntax = tagset.variables.string.tag]
                  ELSE [c EXCEPT !.decoded_tokens[n].syntax = tagset.variables.integer.tag]
             ELSE [c EXCEPT !.btoken.syntax = tagset.punctuations.other.tag]
        ELSE IF c.btoken.token = << "(" >> /\ n > 0
                /\ startswith(c.decoded_tokens[n].syntax, "V")
        THEN [c EXCEPT !.decoded_tokens[n].syntax =
                  << "V", "A", c.decoded_tokens[n].syntax[Len(c.decoded_tokens[n].syntax)] >>]
        ELSE c

\* A DATA block without the override.
decode_ascii_data_off(c) == c

\* _decode_ascii, lines 359-360: the override inside a DATA block
decode_ascii_data(c) ==
    IF c.is_data_block /\ c.btoken.token # << "," >>
    THEN [c EXCEPT !.btoken.syntax = tagset.data.data.tag]
    ELSE c

_decode_ascii(c) ==
    unless_raised(decode_ascii_retag(decode_ascii_quote(decode_ascii_text(c))),
                  decode_ascii_data)

\* the bytes below 0x20, where _lex_line and _decode_string do the same
control_char(c) ==
    [c EXCEPT !.btoken.token = ctrl_get(c.btoken.value, str_of_byte(c.btoken.value)),
              !.btoken.syntax = parse_string(c.btoken)]

\* _decode_string with the bytes >= 0x80 between the quotes handed to
\* _decode_cmd
decode_string_with_commands(c) ==
    IF c.btoken.byte = << 34 >>
    THEN IF c.parenthesis + 1 = 2
         THEN [c EXCEPT !.btoken.token = << "\"" >>,
                        !.parenthesis = 0,
                        !.append_btoken = FALSE,
                        !.string_decl = FALSE]
         ELSE [c EXCEPT !.btoken.token = << "\"" >>,
                        !.parenthesis = c.parenthesis + 1,
                        !.append_btoken = TRUE]
    ELSE IF c.parenthesis = 0 \/ c.btoken.value >= 128
    THEN LET c1 == [c EXCEPT !.append_btoken = TRUE]
         IN  IF c.btoken.value < 32 THEN control_char(c1)
             ELSE IF c.btoken.value <= 127 THEN _decode_ascii(c1)
             ELSE _decode_cmd(c1)
    ELSE [c EXCEPT !.btoken.token =
                       ctrl_get(c.btoken.value, lower(decode_ascii_replace(c.btoken.value))),
                   !.append_btoken = FALSE,
                   !.btoken.syntax = tagset.strings.string.tag]

_decode_string(c) ==
    IF c.btoken.byte = << 34 >>
    THEN IF c.parenthesis + 1 = 2
         THEN [c EXCEPT !.btoken.token = << "\"" >>,
                        !.parenthesis = 0,
                        !.append_btoken = FALSE,
                        !.string_decl = FALSE]
         ELSE [c EXCEPT !.btoken.token = << "\"" >>,
                        !.parenthesis = c.parenthesis + 1,
                        !.append_btoken = TRUE]
    ELSE IF c.parenthesis = 0
    THEN LET c1 == [c EXCEPT !.append_btoken = TRUE]
         IN  IF c.btoken.value < 32 THEN control_char(c1)
             ELSE IF c.btoken.value <= 127 THEN _decode_ascii(c1)
             ELSE _decode_cmd(c1)
    ELSE [c EXCEPT !.btoken.token =
                       ctrl_get(c.btoken.value, lower(decode_ascii_replace(c.btoken.value))),
                   !.append_btoken = FALSE,
                   !.btoken.syntax = tagset.strings.string.tag]

_decode_comment_statement(c) ==
    LET v  == c.btoken.value
        c1 == [c EXCEPT
                 !.btoken.syntax = tagset.strings.comment.tag,
                 !.btoken.token =
                     IF v < 32 THEN ctrl_get(v, str_of_byte(v))
                     ELSE IF v < 128 THEN lower(decode_ascii_replace(v))
                     ELSE ctrl_get(v, decode_ascii_replace(v))]
    IN  IF c1.last_char # 0 /\ last_char_of(c1).value \notin {143}
        THEN [c1 EXCEPT !.append_btoken = FALSE]
        ELSE c1

_disambiguate_unary_signs(c) ==
    LET n == Len(c.decoded_tokens)
    IN  IF c.last_char # 0 /\ last_char_of(c).token \in { << "+" >>, << "-" >> }
        THEN IF n < 2 THEN [c EXCEPT !.exc = "IndexError"]
             ELSE LET is_first == (n = 1)
                      prev == c.decoded_tokens[n - 1]
                      is_nonexpr == ~ \/ startswith(prev.syntax, "V")
                                      \/ startswith(prev.syntax, "N")
                                      \/ startswith(prev.syntax, "S")
                                      \/ prev.token = << ")" >>
                  IN  IF is_first \/ is_nonexpr
                      THEN [c EXCEPT !.decoded_tokens[n].syntax = tagset.operators.unary.tag]
                      ELSE c
        ELSE c

_check_for_system_var(c) ==
    LET n == Len(c.decoded_tokens)
        last_token == c.decoded_tokens[n]
    IN  IF startswith(last_token.syntax, "V")
        THEN IF lower(last_token.token) \in { << "t", "i", "$" >>, << "t", "i", "m", "e", "$" >> }
             THEN [c EXCEPT !.decoded_tokens[n].syntax = tagset.system.time.tag]
             ELSE IF lower(last_token.token) \in { << "s", "t" >>, << "s", "t", "a", "t", "u", "s" >> }
             THEN [c EXCEPT !.decoded_tokens[n].syntax = tagset.system.IO.tag]
             ELSE c
        ELSE IF n > 2 /\ lower(c.decoded_tokens[n - 1].token) \in { << "t", "i" >>, << "t", "i", "m", "e" >> }
        THEN [c EXCEPT !.decoded_tokens[n - 1].syntax = tagset.system.time.tag]
        ELSE c


\* A language check that also wants the first token's characters in the
\* assembly set.
check_line_language_from_first(tokens) ==
    LET n == Len(tokens)
    IN  IF /\ n > 0
           /\ lower(tokens[1].token) = << "d", "a", "t", "a" >>
           /\ \A i \in 1 .. n : \A j \in 1 .. Len(tokens[i].token) :
                 tokens[i].token[j] \in ASSEMBLY_CHARS
        THEN [i \in 1 .. n |-> [tokens[i] EXCEPT !.language = "ASSEMBLY"]]
        ELSE tokens

\* Parser._check_line_language: the token list with the language set.
_check_line_language(tokens) ==
    LET n == Len(tokens)
    IN  IF /\ n > 0
           /\ lower(tokens[1].token) = << "d", "a", "t", "a" >>
           /\ \A i \in 2 .. n : \A j \in 1 .. Len(tokens[i].token) :
                 tokens[i].token[j] \in ASSEMBLY_CHARS
        THEN [i \in 1 .. n |-> [tokens[i] EXCEPT !.language = "ASSEMBLY"]]
        ELSE tokens

\* A reset that leaves print_cmd as the previous call left it.
lex_line_reset_keeping_print(c) ==
    [c EXCEPT !.comment_cmd    = FALSE,
              !.string_decl    = FALSE,
              !.is_data_block  = FALSE,
              !.parenthesis    = 0,
              !.last_char      = 0,
              !.append_btoken  = TRUE,
              !.decoded_tokens = << >>]

\* _lex_line, lines 162-169: the per-line attributes at the start of a call.
lex_line_reset(c) ==
    [c EXCEPT !.comment_cmd    = FALSE,
              !.print_cmd      = FALSE,
              !.string_decl    = FALSE,
              !.is_data_block  = FALSE,
              !.parenthesis    = 0,
              !.last_char      = 0,
              !.append_btoken  = TRUE,
              !.decoded_tokens = << >>]

\* _lex_line, line 174: the byte is dropped.
skip_byte(c) == is_whitespace(c.btoken) /\ ~_within_string_like_expression(c)

\* _lex_line, lines 177-202: the dispatch on the byte.
dispatch_byte(c) ==
    IF c.string_decl THEN _decode_string(c)
    ELSE IF c.comment_cmd THEN _decode_comment_statement(c)
    ELSE IF c.btoken.value < 32 THEN control_char(c)
    ELSE IF c.btoken.value <= 127 THEN _decode_ascii(c)
    ELSE _decode_cmd(c)

\* _lex_line, lines 206-213: append the token, or chunk it onto the last one.
append_or_chunk(c) ==
    LET n == Len(c.decoded_tokens)
    IN  IF c.append_btoken \/ n = 0
        THEN [c EXCEPT !.decoded_tokens = Append(c.decoded_tokens, c.btoken)]
        ELSE IF _add_check_other(c.decoded_tokens[n], c.btoken) # "none"
        THEN [c EXCEPT !.exc = _add_check_other(c.decoded_tokens[n], c.btoken)]
        ELSE [c EXCEPT !.decoded_tokens[n] = __iadd__(c.decoded_tokens[n], c.btoken)]

\* _lex_line, line 215: self.last_char = self.decoded_tokens[-1]
set_last_char(c) == [c EXCEPT !.last_char = Len(c.decoded_tokens)]

\* _lex_line, lines 177-216: the byte is not dropped
keep_byte(c) ==
    unless_raised(
        unless_raised(
            unless_raised(
                unless_raised(dispatch_byte(c), _disambiguate_unary_signs),
                append_or_chunk),
            set_last_char),
        _check_for_system_var)

\* _lex_line, lines 172-216: one pass of the loop, for the byte value.
lex_byte(c, value, lineno) ==
    IF skip_byte([c EXCEPT !.btoken = BASICToken(value, lineno)])
    THEN c
    ELSE keep_byte([c EXCEPT !.btoken = BASICToken(value, lineno)])

\* _lex_line, lines 171-216: the loop over the payload from byte i on; an
\* exception ends it.
RECURSIVE lex_bytes(_, _, _, _)
lex_bytes(c, payload, i, lineno) ==
    IF i > Len(payload) \/ c.exc # "none" THEN c
    ELSE lex_bytes(lex_byte(c, payload[i], lineno), payload, i + 1, lineno)

\* _lex_line, lines 218-220
lex_line_return(c) ==
    IF c.exc # "none" THEN c
    ELSE [c EXCEPT !.decoded_tokens = _check_line_language(c.decoded_tokens)]

\* Parser._lex_line(lineno, payload) on the Parser c, as one call.
_lex_line(c, lineno, payload) ==
    lex_line_return(lex_bytes(lex_line_reset(c), payload, 1, lineno))

\* Parser(): a Parser on which _lex_line was never called.
new_parser ==
    [ replace_error  |-> TRUE,
      comment_cmd    |-> FALSE,
      print_cmd      |-> FALSE,
      string_decl    |-> FALSE,
      is_data_block  |-> FALSE,
      parenthesis    |-> 0,
      last_char      |-> 0,
      append_btoken  |-> TRUE,
      decoded_tokens |-> << >>,
      btoken         |-> BASICToken(0, 0),
      exc            |-> "none" ]

(***************************************************************************)
(* scripts/basics.py: BASICFile.                                           *)
(***************************************************************************)
\* BASICFile.add_line
add_line(file, tokens, lineno) == Append(file, << lineno, tokens >>)

\* str(n) for n >= 0
RECURSIVE decimal(_)
decimal(n) ==
    IF n < 10 THEN << HexDigits[n + 1] >>
    ELSE decimal(n \div 10) \o << HexDigits[(n % 10) + 1] >>

\* f"{lineno:>5d}"
right5(lineno) ==
    LET d == decimal(lineno)
    IN  [i \in 1 .. (IF Len(d) < 5 THEN 5 - Len(d) ELSE 0) |-> " "] \o d

\* " ".join(texts)
RECURSIVE join_space(_)
join_space(texts) ==
    IF texts = << >> THEN << >>
    ELSE IF Len(texts) = 1 THEN texts[1]
    ELSE texts[1] \o << " " >> \o join_space(Tail(texts))

\* A text line whose line number is not padded.
save_line_unpadded(lineno, tokens) ==
    decimal(lineno) \o << " " >> \o join_space([i \in 1 .. Len(tokens) |-> tokens[i].token])

\* BASICFile.save_file, line 178: the text line of one record.
save_line(lineno, tokens) ==
    right5(lineno) \o << " " >> \o join_space([i \in 1 .. Len(tokens) |-> tokens[i].token])

\* BASICFile.save_file: the lines written, in order.
save_file(file) == [i \in 1 .. Len(file) |-> save_line(file[i][1], file[i][2])]

(***************************************************************************)
(* The state.                                                              *)
(***************************************************************************)
VARIABLES
    \* Parser(errors): self.replace_error
    replace_error,
    \* where the Parser stands: "idle" (constructed), "lexing" (inside the
    \* loop of _lex_line), "returned" (_lex_line has returned),
    \* "raised" (_lex_line has raised exc), "added" (the line is in the
    \* BASICFile), "saved" (save_file has written the file)
    pc,
    \* the arguments of the running _lex_line call; line holds the payload
    \* bytes the loop has taken so far (the whole payload once it returned)
    lineno, line,
    \* the per-line attributes of the Parser
    comment_cmd, print_cmd, string_decl, is_data_block, parenthesis,
    last_char, append_btoken, decoded_tokens,
    \* the exception _lex_line raised ("none" when none)
    exc,
    \* history: per byte taken, the mode flags when it was read and the
    \* index of the token it was put in (0: it was dropped)
    hist,
    \* history: the mode flags the previous call left behind, as they were
    \* when the running call began
    carried,
    \* decode_basic_file: bfile.file, and the text lines save_file wrote
    file, saved,
    \* _detokenize_line: the file content, the local pos, the pairs
    \* yielded so far, the local ptr of every pass of the loop, the
    \* positions named in the messages printed, and where the generator
    \* stands ("start", "loop", "done")
    binary, pos, pairs, links, log, dpc,
    \* BASICToken on its own: the operands self and other of + and +=,
    \* the token that + returned, the exception raised ("none" when none),
    \* the last operation ("none", "add", "iadd"), and, as history, the
    \* operands as they were before it
    self_tok, other_tok, sum_tok, tok_exc, tok_op, tok_before

lexvars ==
    << replace_error, pc, lineno, line, comment_cmd, print_cmd, string_decl,
       is_data_block, parenthesis, last_char, append_btoken, decoded_tokens,
       exc, hist, carried >>

filevars == << file, saved >>

detokvars == << binary, pos, pairs, links, log, dpc >>

tokvars == << self_tok, other_tok, sum_tok, tok_exc, tok_op, tok_before >>

vars == << lexvars, filevars, detokvars, tokvars >>

\* The line numbers handed to _lex_line.
LineNos == {10, 300}

\* The payload bytes handed to _lex_line under Spec: space, quote, a
\* letter, a digit, comma, dollar sign, dot, a control byte, DATA, REM, PRINT,
\* IF, the + operator, the relational > and =, a byte with no keyword.
Bytes == {32, 34, 65, 49, 44, 36, 46, 5, 131, 143, 153, 139, 170, 177, 178, 255}

\* the context the sub-lexers work on, from the Parser's attributes
context ==
    [ replace_error  |-> replace_error,
      comment_cmd    |-> comment_cmd,
      print_cmd      |-> print_cmd,
      string_decl    |-> string_decl,
      is_data_block  |-> is_data_block,
      parenthesis    |-> parenthesis,
      last_char      |-> last_char,
      append_btoken  |-> append_btoken,
      decoded_tokens |-> decoded_tokens,
      btoken         |-> BASICToken(0, 0),
      exc            |-> "none" ]

\* the Parser's attributes after the sub-lexers left context r
store(r) ==
    /\ comment_cmd' = r.comment_cmd
    /\ print_cmd' = r.print_cmd
    /\ string_decl' = r.string_decl
    /\ is_data_block' = r.is_data_block
    /\ parenthesis' = r.parenthesis
    /\ last_char' = r.last_char
    /\ append_btoken' = r.append_btoken
    /\ decoded_tokens' = r.decoded_tokens

\* the mode flags of the Parser, for the histories
modes ==
    [ in_string  |-> string_decl,
      in_comment |-> comment_cmd,
      in_print   |-> print_cmd,
      in_data    |-> is_data_block ]

no_modes ==
    [ in_string |-> FALSE, in_comment |-> FALSE, in_print |-> FALSE, in_data |-> FALSE ]

\* Parser.__init__ and main: Parser() with the default errors="replace".
\* The per-line attributes do not exist before the first _lex_line call,
\* which assigns every one of them before reading it.
InitLex ==
    /\ replace_error = TRUE
    /\ pc = "idle"
    /\ lineno = 0
    /\ line = << >>
    /\ comment_cmd = FALSE
    /\ print_cmd = FALSE
    /\ string_decl = FALSE
    /\ is_data_block = FALSE
    /\ parenthesis = 0
    /\ last_char = 0
    /\ append_btoken = TRUE
    /\ decoded_tokens = << >>
    /\ exc = "none"
    /\ hist = << >>
    /\ carried = no_modes

InitFile ==
    /\ file = << >>
    /\ saved = << >>

InitDetokIdle ==
    /\ binary = << >>
    /\ pos = 0
    /\ pairs = << >>
    /\ links = << >>
    /\ log = << >>
    /\ dpc = "start"

InitTokIdle ==
    /\ self_tok = BASICToken(0, 0)
    /\ other_tok = BASICToken(0, 0)
    /\ sum_tok = BASICToken(0, 0)
    /\ tok_exc = "none"
    /\ tok_op = "none"
    /\ tok_before = << BASICToken(0, 0), BASICToken(0, 0) >>

Init == InitLex /\ InitFile /\ InitDetokIdle /\ InitTokIdle

(***************************************************************************)
(* _lex_line as steps.                                                     *)
(***************************************************************************)
\* _lex_line is called with line number ln: lines 160-169.
lex_line_begin(ln) ==
    /\ pc \in {"idle", "returned", "raised", "saved"}
    /\ pc' = "lexing"
    /\ lineno' = ln
    /\ line' = << >>
    /\ store(lex_line_reset(context))
    /\ exc' = "none"
    /\ hist' = << >>
    /\ UNCHANGED << replace_error, detokvars, tokvars >>

\* A call of _lex_line on the Parser, whatever it did before.
LexLineBegin(ln) ==
    /\ lex_line_begin(ln)
    /\ UNCHANGED << carried, filevars >>

\* The same call, with the flags the previous call left behind recorded.
LexLineBeginAfter(ln) ==
    /\ lex_line_begin(ln)
    /\ carried' = modes
    /\ UNCHANGED filevars

\* One pass of the loop of _lex_line, lines 171-216, for the next payload
\* byte, value.
LexByte(value) ==
    /\ pc = "lexing"
    /\ LET r == lex_byte(context, value, lineno)
       IN  /\ store(r)
           /\ exc' = r.exc
           /\ pc' = IF r.exc = "none" THEN "lexing" ELSE "raised"
           /\ hist' = Append(hist,
                 [ byte       |-> value,
                   in_string  |-> string_decl,
                   in_comment |-> comment_cmd,
                   in_print   |-> print_cmd,
                   tok        |-> IF r.exc = "none" /\ r.decoded_tokens # decoded_tokens
                                  THEN Len(r.decoded_tokens) ELSE 0 ])
    /\ line' = Append(line, value)
    /\ UNCHANGED << replace_error, lineno, carried, filevars, detokvars, tokvars >>

\* The payload is exhausted: lines 218-220, _check_line_language and return.
LexLineEnd ==
    /\ pc = "lexing"
    /\ pc' = "returned"
    /\ decoded_tokens' = _check_line_language(decoded_tokens)
    /\ UNCHANGED << replace_error, lineno, line, comment_cmd, print_cmd, string_decl,
                    is_data_block, parenthesis, last_char, append_btoken, exc, hist,
                    carried, filevars, detokvars, tokvars >>

\* The payload bytes under SpecReuse.
ReuseBytes == {32, 34, 65, 131, 143, 153, 170}

\* The payload bytes under SpecData: DATA, the letters D A T G, comma,
\* dollar sign, quote.
DataBytes == {131, 68, 65, 84, 71, 44, 36, 34}

\* The payload bytes under SpecErrors: a byte without an entry in the
\* command table, minus, a letter, quote, REM, space.
ErrBytes == {255, 171, 65, 34, 143, 32}

\* The payload bytes under SpecEq: IF, THEN, colon, semicolon, =, >, a
\* letter.
EqBytes == {139, 167, 58, 59, 178, 177, 65}

\* The payload bytes under SpecSys: the letters T and I, the string sigil,
\* =, a digit, PRINT and the comma.
SysBytes == {84, 73, 36, 178, 49, 153, 44}

\* The payload bytes under SpecFile: PRINT, space, quote, a letter.
PrintBytes == {153, 32, 34, 72}

(***************************************************************************)
(* decode_basic_file and save_file, for a file that holds one line record. *)
(***************************************************************************)
\* decode_basic_file, lines 90-98: a new BASICFile, and _lex_line on the
\* record's payload.
DecodeBegin(ln) ==
    /\ lex_line_begin(ln)
    /\ file' = << >>
    /\ saved' = << >>
    /\ UNCHANGED carried

\* decode_basic_file, line 101: bfile.add_line(detokenized_line, ln)
AddLine ==
    /\ pc = "returned"
    /\ pc' = "added"
    /\ file' = add_line(file, decoded_tokens, lineno)
    /\ UNCHANGED << replace_error, lineno, line, comment_cmd, print_cmd, string_decl,
                    is_data_block, parenthesis, last_char, append_btoken, decoded_tokens,
                    exc, hist, carried, saved, detokvars, tokvars >>

\* main, line 46: bfile.save_file(dest_file)
SaveFile ==
    /\ pc = "added"
    /\ pc' = "saved"
    /\ saved' = save_file(file)
    /\ UNCHANGED << replace_error, lineno, line, comment_cmd, print_cmd, string_decl,
                    is_data_block, parenthesis, last_char, append_btoken, decoded_tokens,
                    exc, hist, carried, file, detokvars, tokvars >>

(***************************************************************************)
(* scripts/parser.py: Parser._detokenize_line.                             *)
(***************************************************************************)
\* The bytes of a file under SpecDetok: zero and a byte that is not zero.
DetokBytes == {0, 1}

Buffers == UNION { [1 .. n -> DetokBytes] : n \in 0 .. MaxBuf }

\* struct.unpack_from("<H", binary, at): bytes at and at + 1, offsets from 0
unpack_H(buf, at) == buf[at + 1] + 256 * buf[at + 2]

\* binary[from:], offsets from 0
slice_from(buf, from) == SubSeq(buf, from + 1, Len(buf))

\* A loop that stops one byte earlier.
loop_condition_short(p, end) == p < end - 5

\* line 127: the loop condition
loop_condition(p, end) == p < end - 4

\* line 136: the end marker
is_end_marker(buf, ln, p) ==
    ln = 0 /\ { buf[i] : i \in (p + 1) .. Len(buf) } = {0}

\* binary.index(0x00, pos - 4): a search that starts at the link pointer
index_of_zero_from_link(buf, p) ==
    IF \E i \in (p - 3) .. Len(buf) : buf[i] = 0
    THEN (CHOOSE i \in (p - 3) .. Len(buf) :
              buf[i] = 0 /\ \A j \in (p - 3) .. (i - 1) : buf[j] # 0) - 1
    ELSE -1

\* line 141: binary.index(0x00, pos), as an offset from 0; -1 stands for
\* the ValueError
index_of_zero(buf, p) ==
    IF \E i \in (p + 1) .. Len(buf) : buf[i] = 0
    THEN (CHOOSE i \in (p + 1) .. Len(buf) :
              buf[i] = 0 /\ \A j \in (p + 1) .. (i - 1) : buf[j] # 0) - 1
    ELSE -1

InitDetok ==
    /\ InitLex
    /\ InitFile
    /\ binary \in Buffers
    /\ pos = 0
    /\ pairs = << >>
    /\ links = << >>
    /\ log = << >>
    /\ dpc = "start"
    /\ InitTokIdle

\* lines 119-124: the file is read, pos = 2
DetokStart ==
    /\ dpc = "start"
    /\ dpc' = "loop"
    /\ pos' = 2
    /\ UNCHANGED << binary, pairs, links, log, lexvars, filevars, tokvars >>

\* line 127 fails: return at line 152
DetokExhausted ==
    /\ dpc = "loop"
    /\ ~loop_condition(pos, Len(binary))
    /\ dpc' = "done"
    /\ UNCHANGED << binary, pos, pairs, links, log, lexvars, filevars, tokvars >>

\* lines 129-137: a line number 0 with only zero bytes after it
DetokEndMarker ==
    /\ dpc = "loop"
    /\ loop_condition(pos, Len(binary))
    /\ is_end_marker(binary, unpack_H(binary, pos + 2), pos + 4)
    /\ dpc' = "done"
    /\ pos' = pos + 4
    /\ links' = Append(links, unpack_H(binary, pos))
    /\ UNCHANGED << binary, pairs, log, lexvars, filevars, tokvars >>

\* lines 129-145: no 0x00 after the line number
DetokTruncated ==
    /\ dpc = "loop"
    /\ loop_condition(pos, Len(binary))
    /\ ~is_end_marker(binary, unpack_H(binary, pos + 2), pos + 4)
    /\ index_of_zero(binary, pos + 4) = -1
    /\ dpc' = "done"
    /\ pos' = pos + 4
    /\ links' = Append(links, unpack_H(binary, pos))
    /\ log' = Append(log, pos + 4)
    /\ UNCHANGED << binary, pairs, lexvars, filevars, tokvars >>

\* lines 129-150: a record is yielded
DetokYield ==
    /\ dpc = "loop"
    /\ loop_condition(pos, Len(binary))
    /\ ~is_end_marker(binary, unpack_H(binary, pos + 2), pos + 4)
    /\ index_of_zero(binary, pos + 4) # -1
    /\ LET eol == index_of_zero(binary, pos + 4)
       IN  /\ pairs' = Append(pairs, << unpack_H(binary, pos + 2),
                                       SubSeq(binary, pos + 5, eol) >>)
           /\ pos' = eol + 1
    /\ links' = Append(links, unpack_H(binary, pos))
    /\ UNCHANGED << binary, log, dpc, lexvars, filevars, tokvars >>

(***************************************************************************)
(* scripts/basics.py: the operators + and += of BASICToken on their own.   *)
(***************************************************************************)
\* the seed bytes of the operands: a letter and a digit
TokenValues == {65, 49}

\* a token as _lex_line leaves it: text, tag and language set
lexed_token(value, ln, language) ==
    [ BASICToken(value, ln) EXCEPT
        !.token = lower(<< chr(value) >>),
        !.syntax = IF value \in ASCII_CODES.letter
                   THEN tagset.variables.real.tag ELSE tagset.numbers.integer.tag,
        !.language = language ]

Tokens ==
    { lexed_token(v, ln, language) :
        v \in TokenValues, ln \in LineNos, language \in {"BASIC", "ASSEMBLY"} }

InitTok ==
    /\ InitLex
    /\ InitFile
    /\ InitDetokIdle
    /\ self_tok \in Tokens
    /\ other_tok \in Tokens
    /\ sum_tok = BASICToken(0, 0)
    /\ tok_exc = "none"
    /\ tok_op = "none"
    /\ tok_before = << BASICToken(0, 0), BASICToken(0, 0) >>

\* sum = self + other
TokAdd ==
    /\ Len(self_tok.byte) <= MaxChunk
    /\ tok_op' = "add"
    /\ tok_before' = << self_tok, other_tok >>
    /\ tok_exc' = _add_check_other(self_tok, other_tok)
    /\ sum_tok' = IF _add_check_other(self_tok, other_tok) = "none"
                  THEN __add__(self_tok, other_tok) ELSE sum_tok
    /\ UNCHANGED << self_tok, other_tok, lexvars, filevars, detokvars >>

\* self += other
TokIAdd ==
    /\ Len(self_tok.byte) <= MaxChunk
    /\ tok_op' = "iadd"
    /\ tok_before' = << self_tok, other_tok >>
    /\ tok_exc' = _add_check_other(self_tok, other_tok)
    /\ self_tok' = IF _add_check_other(self_tok, other_tok) = "none"
                   THEN __iadd__(self_tok, other_tok) ELSE self_tok
    /\ UNCHANGED << other_tok, sum_tok, lexvars, filevars, detokvars >>

\* the name other is bound to another token, before the next operation
TokOther(t) ==
    /\ tok_op # "none"
    /\ other_tok' = t
    /\ tok_op' = "none"
    /\ tok_exc' = "none"
    /\ UNCHANGED << self_tok, sum_tok, tok_before, lexvars, filevars, detokvars >>

(***************************************************************************)
(* The specifications.                                                     *)
(***************************************************************************)
\* _lex_line, called again and again on one Parser.
Next ==
    \/ \E ln \in LineNos : LexLineBegin(ln)
    \/ \E value \in Bytes : Len(line) < MaxLen /\ LexByte(value)
    \/ LexLineEnd

Spec == Init /\ [][Next]_vars

\* The same, with the flags that a call inherits recorded.
NextReuse ==
    \/ \E ln \in LineNos : LexLineBeginAfter(ln)
    \/ \E value \in ReuseBytes : Len(line) < MaxLenReuse /\ LexByte(value)
    \/ LexLineEnd

SpecReuse == Init /\ [][NextReuse]_vars

\* _lex_line on the lines of DATA blocks.
NextData ==
    \/ \E ln \in LineNos : LexLineBegin(ln)
    \/ \E value \in DataBytes : Len(line) < MaxLenData /\ LexByte(value)
    \/ LexLineEnd

SpecData == Init /\ [][NextData]_vars

\* main: files of one PRINT line decoded and saved, one after the other.
NextFile ==
    \/ \E ln \in LineNos : DecodeBegin(ln)
    \/ \E value \in PrintBytes : Len(line) < MaxLenPrint /\ LexByte(value)
    \/ LexLineEnd
    \/ AddLine
    \/ SaveFile

SpecFile == Init /\ [][NextFile]_vars

\* decode_basic_file on files of one line, by a Parser constructed with
\* errors="replace" or with errors="raise".
InitErrors ==
    /\ replace_error \in BOOLEAN
    /\ pc = "idle"
    /\ lineno = 0
    /\ line = << >>
    /\ comment_cmd = FALSE
    /\ print_cmd = FALSE
    /\ string_decl = FALSE
    /\ is_data_block = FALSE
    /\ parenthesis = 0
    /\ last_char = 0
    /\ append_btoken = TRUE
    /\ decoded_tokens = << >>
    /\ exc = "none"
    /\ hist = << >>
    /\ carried = no_modes
    /\ InitFile
    /\ InitDetokIdle
    /\ InitTokIdle

NextErrors ==
    \/ \E ln \in LineNos : DecodeBegin(ln)
    \/ \E value \in ErrBytes : Len(line) < MaxLenErr /\ LexByte(value)
    \/ LexLineEnd
    \/ AddLine

SpecErrors == InitErrors /\ [][NextErrors]_vars

\* _lex_line on lines of IF, THEN, separators and equal signs.
NextEq ==
    \/ \E ln \in LineNos : LexLineBegin(ln)
    \/ \E value \in EqBytes : Len(line) < MaxLenEq /\ LexByte(value)
    \/ LexLineEnd

SpecEq == Init /\ [][NextEq]_vars

\* _lex_line on lines that name the system variables.
NextSys ==
    \/ \E ln \in LineNos : LexLineBegin(ln)
    \/ \E value \in SysBytes : Len(line) < MaxLenSys /\ LexByte(value)
    \/ LexLineEnd

SpecSys == Init /\ [][NextSys]_vars

\* BASICToken: tokens concatenated with + and +=.
NextTok ==
    \/ TokAdd
    \/ TokIAdd
    \/ \E t \in Tokens : TokOther(t)

SpecTok == InitTok /\ [][NextTok]_vars

\* _detokenize_line on one file.
NextDetok ==
    \/ DetokStart
    \/ DetokExhausted
    \/ DetokEndMarker
    \/ DetokTruncated
    \/ DetokYield

SpecDetok == InitDetok /\ [][NextDetok]_vars

\* _detokenize_line driven to its end: decode_basic_file iterates the
\* generator in a for loop (lines 93-94), so a step that can be taken is
\* taken.
SpecDetokLive == InitDetok /\ [][NextDetok]_vars /\ WF_vars(NextDetok)

(***************************************************************************)
(* Properties of _lex_line and of _detokenize_line.                        *)
(***************************************************************************)
RECURSIVE flatten(_)
flatten(seqs) == IF seqs = << >> THEN << >> ELSE Head(seqs) \o flatten(Tail(seqs))

\* the bytes of the tokens, one token after the other
token_bytes(tokens) == flatten([i \in 1 .. Len(tokens) |-> tokens[i].byte])

\* the history entry e is a space read while no string-like flag was set
space_outside_spans(e) ==
    e.byte = 32 /\ ~e.in_string /\ ~e.in_comment /\ ~e.in_print

not_space_outside_spans(e) == ~space_outside_spans(e)

\* the payload read so far without the spaces read outside all spans
payload_without_outside_spaces ==
    LET kept == SelectSeq(hist, not_space_outside_spans)
    IN  [i \in 1 .. Len(kept) |-> kept[i].byte]

\* C1: when _lex_line returns, the bytes of the returned tokens, in order,
\* are the payload without the 0x20 bytes that were read while none of
\* in_string, in_comment, in_print was set; every other byte is there once
\* and in its place.
C1_TokenBytesArePayload ==
    pc = "returned" =>
        /\ line = [i \in 1 .. Len(hist) |-> hist[i].byte]
        /\ token_bytes(decoded_tokens) = payload_without_outside_spaces

\* C1: a returned line with a space that was dropped, a space that was
\* kept, and a token of more than one byte.
C1_Witness ==
    /\ pc = "returned"
    /\ \E i \in 1 .. Len(hist) : space_outside_spans(hist[i])
    /\ \E i \in 1 .. Len(hist) : hist[i].byte = 32 /\ ~space_outside_spans(hist[i])
    /\ \E k \in 1 .. Len(decoded_tokens) : Len(decoded_tokens[k].byte) > 1

\* C2: when _lex_line returns for a payload on a Parser that lexed other
\* payloads before, the tokens are those that a new Parser returns for the
\* same line number and payload.
C2_LineIndependentOfPrevious ==
    pc = "returned" =>
        /\ _lex_line(new_parser, lineno, line).exc = "none"
        /\ _lex_line(new_parser, lineno, line).decoded_tokens = decoded_tokens

\* C2: a line returned after a call that ended inside an open string, with
\* in_print and in_data set; the line has a dropped space and a token.
C2_Witness ==
    /\ pc = "returned"
    /\ carried.in_string /\ carried.in_print /\ carried.in_data
    /\ \E i \in 1 .. Len(hist) : hist[i].byte = 32 /\ hist[i].tok = 0
    /\ decoded_tokens # << >>

\* The records of a well-formed file from offset at on: records with a line
\* number that is not 0 and a terminated payload, then only 0x00 bytes.
RECURSIVE records_from(_, _)
records_from(buf, at) ==
    IF \A i \in (at + 1) .. Len(buf) : buf[i] = 0
    THEN [ok |-> TRUE, recs |-> << >>]
    ELSE IF Len(buf) - at < 5
    THEN [ok |-> FALSE, recs |-> << >>]
    ELSE LET ln == buf[at + 3] + 256 * buf[at + 4]
             zs == { i \in (at + 5) .. Len(buf) : buf[i] = 0 }
         IN  IF ln = 0 \/ zs = {}
             THEN [ok |-> FALSE, recs |-> << >>]
             ELSE LET z == CHOOSE i \in zs : \A j \in zs : i <= j
                  IN  [ok   |-> records_from(buf, z).ok,
                       recs |-> << << ln, SubSeq(buf, at + 5, z - 1) >> >>
                                    \o records_from(buf, z).recs]

well_formed(buf) == Len(buf) >= 2 /\ records_from(buf, 2).ok

C4_TruncatedPayloadYielded ==
    (dpc = "done" /\ log # << >>) =>
        /\ pairs # << >>
        /\ pairs[Len(pairs)] =
               << unpack_H(binary, log[1] - 2), slice_from(binary, log[1]) >>

\* C5: no pair is yielded for a record whose link pointer is zero, nor for
\* anything after it: every pair comes from a pass of the loop before
\* which no zero link pointer was read.
C5_ZeroLinkEndsProgram ==
    \A k \in 1 .. Len(pairs) : \A j \in 1 .. k : links[j] # 0

\* the payload is PRINT, a space, and a double-quoted literal of printable
\* ASCII characters
is_print_of_literal(payload) ==
    /\ Len(payload) >= 4
    /\ payload[1] = 153
    /\ payload[2] = 32
    /\ payload[3] = 34
    /\ payload[Len(payload)] = 34
    /\ \A i \in 4 .. (Len(payload) - 1) : payload[i] \in (32 .. 126) \ {34}

\* the literal of such a payload, quotes included, in lower case
literal_text(payload) ==
    [i \in 1 .. (Len(payload) - 2) |-> lower_chr(chr(payload[i + 2]))]

\* C6: for the payload PRINT, space, quoted literal, _lex_line returns three
\* tokens: PRINT, the space, and one string token whose text is the literal
\* in lower case with both quotes; save_file writes the line number right
\* aligned in 5 columns, a space, PRINT, three spaces and the string text.
C6_PrintSpaceIsAToken ==
    (pc \in {"returned", "added", "saved"} /\ is_print_of_literal(line)) =>
        /\ Len(decoded_tokens) = 3
        /\ decoded_tokens[1].token = << "P", "R", "I", "N", "T" >>
        /\ decoded_tokens[2].byte = << 32 >>
        /\ decoded_tokens[2].token = << " " >>
        /\ decoded_tokens[3].byte = SubSeq(line, 3, Len(line))
        /\ decoded_tokens[3].token = literal_text(line)
        /\ decoded_tokens[3].syntax = tagset.strings.string.tag
        /\ pc = "saved" =>
               saved = << right5(lineno)
                          \o << " ", "P", "R", "I", "N", "T", " ", " ", " " >>
                          \o literal_text(line) >>

\* C6: the file of the line 10 PRINT "H" was saved.
C6_Witness ==
    /\ pc = "saved"
    /\ lineno = 10
    /\ line = << 153, 32, 34, 72, 34 >>

\* C6, as stated: two tokens, PRINT and the string, and one space between
\* them in the saved line.
C6_AsStated ==
    (pc \in {"returned", "added", "saved"} /\ is_print_of_literal(line)) =>
        /\ Len(decoded_tokens) = 2
        /\ decoded_tokens[1].token = << "P", "R", "I", "N", "T" >>
        /\ decoded_tokens[2].token = literal_text(line)
        /\ pc = "saved" =>
               saved = << right5(lineno)
                          \o << " ", "P", "R", "I", "N", "T", " " >>
                          \o literal_text(line) >>

\* the step reads the byte v and leaves it in the token list with the
\* keyword spelling of v: as the text of a new token, or at the end of the
\* text of the last token
keyword_spelled(v) ==
    LET n == Len(decoded_tokens)
    IN  \/ /\ Len(decoded_tokens') = n + 1
           /\ decoded_tokens'[n + 1].token = BYTE_TO_CMD[v]
        \/ /\ Len(decoded_tokens') = n
           /\ n > 0
           /\ decoded_tokens'[n].token = decoded_tokens[n].token \o BYTE_TO_CMD[v]

\* the step is a pass of the loop of _lex_line that reads a byte of the
\* command table and does not raise
reads_command_byte ==
    /\ pc = "lexing"
    /\ pc' = "lexing"
    /\ Len(line') = Len(line) + 1
    /\ line'[Len(line')] \in DOMAIN BYTE_TO_CMD

\* C7: a byte of the command table read while neither in_string nor
\* in_comment is set puts its keyword spelling into the text of the token
\* it goes to.
C7_KeywordOutsideStringAndComment ==
    [][(reads_command_byte /\ ~string_decl /\ ~comment_cmd)
           => keyword_spelled(line'[Len(line')])]_vars

\* C7: the bytes > and = were read one after the other outside strings and
\* comments, and went to one token with the text >=.
C7_Witness ==
    /\ pc = "lexing"
    /\ Len(hist) >= 2
    /\ hist[Len(hist) - 1].byte = 177
    /\ hist[Len(hist)].byte = 178
    /\ ~hist[Len(hist)].in_string /\ ~hist[Len(hist)].in_comment
    /\ hist[Len(hist)].tok > 0
    /\ decoded_tokens[hist[Len(hist)].tok].token = << ">", "=" >>

\* C7, as stated: the same for every byte read while in_string is false.
C7_AsStated ==
    [][(reads_command_byte /\ ~string_decl)
           => keyword_spelled(line'[Len(line')])]_vars

\* the tokens of strings: those that took a byte read while in_string was
\* set, and those started by an opening quote
string_tokens ==
    { hist[i].tok : i \in { j \in 1 .. Len(hist) :
          /\ hist[j].tok > 0
          /\ \/ hist[j].in_string
             \/ hist[j].byte = 34 /\ ~hist[j].in_comment } }

\* C8: when _lex_line returns, a token of a string starts with the opening
\* quote; it carries the data tag on a line that starts with DATA and the
\* string tag on every other line.
C8_StringTagUnlessData ==
    pc = "returned" =>
        \A k \in string_tokens :
            /\ decoded_tokens[k].byte[1] = 34
            /\ decoded_tokens[k].syntax =
                   IF is_data_block THEN tagset.data.data.tag
                   ELSE tagset.strings.string.tag

\* C8: a returned line that starts with DATA and holds a string of more
\* than the opening quote.
C8_Witness ==
    /\ pc = "returned"
    /\ is_data_block
    /\ \E k \in string_tokens : Len(decoded_tokens[k].byte) > 1

\* C8, as stated: the string tag on every kind of line.
C8_AsStated ==
    pc = "returned" =>
        \A k \in string_tokens :
            decoded_tokens[k].syntax = tagset.strings.string.tag

\* C9: when _lex_line returns tokens, all of them have the same language,
\* and it is ASSEMBLY exactly when the text of the first is data in any
\* case and every character of the later texts is an assembly character.
C9_LanguageOfLine ==
    (pc = "returned" /\ decoded_tokens # << >>) =>
        /\ \A k \in 1 .. Len(decoded_tokens) :
               decoded_tokens[k].language = decoded_tokens[1].language
        /\ decoded_tokens[1].language \in {"BASIC", "ASSEMBLY"}
        /\ decoded_tokens[1].language = "ASSEMBLY" <=>
               /\ lower(decoded_tokens[1].token) = << "d", "a", "t", "a" >>
               /\ \A k \in 2 .. Len(decoded_tokens) :
                      \A j \in 1 .. Len(decoded_tokens[k].token) :
                          decoded_tokens[k].token[j] \in ASSEMBLY_CHARS

\* C9: a returned ASSEMBLY line of the DATA keyword and further tokens.
C9_Witness ==
    /\ pc = "returned"
    /\ Len(decoded_tokens) >= 2
    /\ decoded_tokens[1].byte = << 131 >>
    /\ decoded_tokens[Len(decoded_tokens)].language = "ASSEMBLY"

\* C10: the value of a token is the first of its bytes, however many bytes
\* were chunked onto it.
C10_ValueIsSeedByte ==
    \A k \in 1 .. Len(decoded_tokens) :
        decoded_tokens[k].value = decoded_tokens[k].byte[1]

\* C11: + and += raise exactly when the line numbers or the languages of
\* the two tokens differ, and a raise leaves every field of both tokens
\* as it was.
C11_ConcatenationChecked ==
    tok_op # "none" =>
        /\ tok_exc # "none" <=>
               \/ tok_before[1].lineno # tok_before[2].lineno
               \/ tok_before[1].language # tok_before[2].language
        /\ tok_exc # "none" => (self_tok = tok_before[1] /\ other_tok = tok_before[2])

\* C11: a += failed for two tokens of one line with different languages,
\* after an earlier += had succeeded.
C11_Witness ==
    /\ tok_op = "iadd"
    /\ tok_exc = "ValueError"
    /\ Len(self_tok.byte) = 2
    /\ tok_before[1].lineno = tok_before[2].lineno
    /\ tok_before[1].language # tok_before[2].language

\* the last byte read was a byte >= 0x80 without an entry in the command
\* table, read while neither in_string nor in_comment was set
unknown_command_byte_read ==
    /\ hist # << >>
    /\ hist[Len(hist)].byte >= 128
    /\ hist[Len(hist)].byte \notin DOMAIN BYTE_TO_CMD
    /\ ~hist[Len(hist)].in_string
    /\ ~hist[Len(hist)].in_comment

\* C12: a byte >= 0x80 without an entry in the command table, read outside
\* strings and comments, becomes a token with the text U+FFFD and the
\* unknown tag and the line goes on when the Parser replaces errors; when
\* the Parser raises, _lex_line fails and no file is returned.
C12_UnknownCommandByte ==
    unknown_command_byte_read =>
        IF replace_error
        THEN /\ pc # "raised"
             /\ decoded_tokens # << >>
             /\ decoded_tokens[Len(decoded_tokens)].byte = << hist[Len(hist)].byte >>
             /\ decoded_tokens[Len(decoded_tokens)].token = replacement_char
             /\ decoded_tokens[Len(decoded_tokens)].syntax = tagset.unknown.unknown.tag
        ELSE /\ pc = "raised"
             /\ exc = "KeyError"
             /\ file = << >>

\* the history entries i - 1 and i are two different relational bytes read
\* by the command sub-lexer and put in one token
relational_pair(i) ==
    /\ hist[i - 1].byte \in {177, 178, 179}
    /\ hist[i].byte \in {177, 178, 179}
    /\ hist[i - 1].byte # hist[i].byte
    /\ ~hist[i - 1].in_string /\ ~hist[i - 1].in_comment
    /\ ~hist[i].in_string /\ ~hist[i].in_comment
    /\ hist[i].tok > 0
    /\ hist[i].tok = hist[i - 1].tok

\* C13: when _lex_line returns, every token made of two different
\* relational bytes carries the relational tag, whatever the order of the
\* bytes and whatever stands before them.
C13_ChunkedRelationalTag ==
    pc = "returned" =>
        \A i \in 2 .. Len(hist) :
            relational_pair(i) =>
                decoded_tokens[hist[i].tok].syntax = tagset.operators.relational.tag

\* the bytes that give a token with the text + or -
SignBytes == {170, 171, 43, 45}

\* the history entry i is the first byte of the line that was not dropped
first_kept(i) ==
    /\ ~space_outside_spans(hist[i])
    /\ \A j \in 1 .. (i - 1) : space_outside_spans(hist[j])

\* C14: when a sign is the first token of a line and a further byte that
\* is not dropped follows, _lex_line returns and the sign token carries
\* the unary tag.
C14_LeadingSignIsUnary ==
    (/\ pc \in {"returned", "raised"}
     /\ \E i \in 1 .. Len(hist) :
            /\ first_kept(i)
            /\ hist[i].byte \in SignBytes
            /\ \E j \in (i + 1) .. Len(hist) : ~space_outside_spans(hist[j]))
    => /\ pc = "returned"
       /\ decoded_tokens[1].syntax = tagset.operators.unary.tag

\* the token t does not stand for an expression: it is no variable, no
\* number, no string and no closing parenthesis
not_an_expression(t) ==
    /\ ~startswith(t.syntax, "V")
    /\ ~startswith(t.syntax, "N")
    /\ ~startswith(t.syntax, "S")
    /\ t.token # << ")" >>

\* C15: when _lex_line returns, every token with the text + or - that
\* follows a token which does not stand for an expression carries the
\* unary tag, also when it is the last token of the line.
C15_SignAfterNonExpressionIsUnary ==
    pc = "returned" =>
        \A k \in 2 .. Len(decoded_tokens) :
            (/\ decoded_tokens[k].token \in { << "+" >>, << "-" >> }
             /\ not_an_expression(decoded_tokens[k - 1]))
            => decoded_tokens[k].syntax = tagset.operators.unary.tag

\* the last byte read was 0xB2, read by the command sub-lexer, and it
\* became a new token that is not the first of the line
equal_sign_token_added ==
    /\ pc = "lexing"
    /\ hist # << >>
    /\ hist[Len(hist)].byte = 178
    /\ ~hist[Len(hist)].in_string
    /\ ~hist[Len(hist)].in_comment
    /\ Len(decoded_tokens) >= 2
    /\ hist[Len(hist)].tok = Len(decoded_tokens)
    /\ decoded_tokens[Len(decoded_tokens)].byte = << 178 >>

\* among the tokens before the last one, an IF stands after every colon,
\* semicolon and THEN
if_is_nearest ==
    \E i \in 1 .. (Len(decoded_tokens) - 1) :
        /\ decoded_tokens[i].token = << "I", "F" >>
        /\ \A j \in (i + 1) .. (Len(decoded_tokens) - 1) :
               decoded_tokens[j].token \notin { << ":" >>, << ";" >>, << "T", "H", "E", "N" >> }

C17_OneCommentToken ==
    pc = "returned" =>
        \A i \in 1 .. (Len(hist) - 1) :
            (hist[i].byte = 143 /\ ~hist[i].in_string /\ ~hist[i].in_comment) =>
                /\ hist[i].tok > 0
                /\ decoded_tokens[hist[i].tok].byte = << 143 >>
                /\ Len(decoded_tokens) = hist[i].tok + 1
                /\ decoded_tokens[Len(decoded_tokens)].byte = SubSeq(line, i + 1, Len(line))

RelationalBytes == {177, 178, 179}

\* the last byte read was a relational byte, read by the command
\* sub-lexer, and it was put in a token
relational_byte_kept ==
    /\ pc = "lexing"
    /\ hist # << >>
    /\ hist[Len(hist)].byte \in RelationalBytes
    /\ ~hist[Len(hist)].in_string
    /\ ~hist[Len(hist)].in_comment
    /\ hist[Len(hist)].tok = Len(decoded_tokens)
    /\ decoded_tokens # << >>

\* the token t started with a relational byte other than v
seeded_by_other_relational(t, v) ==
    t.byte[1] \in RelationalBytes /\ t.byte[1] # v

\* C18: a relational byte is concatenated onto the previous token exactly
\* when the byte that started that token is a relational byte other than
\* the one read; otherwise it starts a new token.
C18_ChunkedBySeedValue ==
    relational_byte_kept =>
        LET n == Len(decoded_tokens)
            v == hist[Len(hist)].byte
        IN  IF Len(decoded_tokens[n].byte) > 1
            THEN seeded_by_other_relational(decoded_tokens[n], v)
            ELSE n > 1 => ~seeded_by_other_relational(decoded_tokens[n - 1], v)

\* C19: a byte below 0x20 read while neither in_string nor in_comment is
\* set becomes a token of its own with the string tag, and with its glyph
\* as text when the control table has one.
C19_ControlByteOwnToken ==
    (/\ pc = "lexing"
     /\ hist # << >>
     /\ hist[Len(hist)].byte < 32
     /\ ~hist[Len(hist)].in_string
     /\ ~hist[Len(hist)].in_comment)
    => /\ hist[Len(hist)].tok = Len(decoded_tokens)
       /\ decoded_tokens # << >>
       /\ decoded_tokens[Len(decoded_tokens)].byte = << hist[Len(hist)].byte >>
       /\ decoded_tokens[Len(decoded_tokens)].syntax = tagset.strings.string.tag
       /\ hist[Len(hist)].byte \in DOMAIN BYTE_TO_CTRL =>
              decoded_tokens[Len(decoded_tokens)].token = BYTE_TO_CTRL[hist[Len(hist)].byte]

\* the step is a pass of the loop of _lex_line that reads a sigil with the
\* ASCII sub-lexer and does not raise
reads_sigil ==
    /\ pc = "lexing"
    /\ pc' = "lexing"
    /\ Len(line') = Len(line) + 1
    /\ line'[Len(line')] \in {36, 37}
    /\ ~string_decl
    /\ ~comment_cmd

\* the text of the token t starts with a letter
starts_with_letter(t) == t.token # << >> /\ t.token[1] \in ascii_letters

\* C20: a sigil read after a token whose text starts with a letter is
\* concatenated onto that token, which is then tagged string variable for
\* $ and integer variable for %; after any other token the sigil is a
\* token of its own and the tag of the previous token stays.
C20_SigilJoinsName ==
    [][reads_sigil =>
          LET n == Len(decoded_tokens)
              v == line'[Len(line')]
          IN  IF n > 0 /\ starts_with_letter(decoded_tokens[n])
              THEN /\ Len(decoded_tokens') = n
                   /\ decoded_tokens'[n].byte = decoded_tokens[n].byte \o << v >>
                   /\ decoded_tokens'[n].syntax =
                          IF v = 36 THEN tagset.variables.string.tag
                          ELSE tagset.variables.integer.tag
              ELSE /\ Len(decoded_tokens') = n + 1
                   /\ decoded_tokens'[n + 1].byte = << v >>
                   /\ n > 0 => decoded_tokens'[n].syntax = decoded_tokens[n].syntax]_vars

\* the history entry i is the byte that started the token it was put in
starts_token(i) ==
    /\ hist[i].tok > 0
    /\ \A j \in 1 .. (i - 1) : hist[j].tok # hist[i].tok

\* C21: when _lex_line returns a line whose first token is the DATA
\* keyword, every token started by a printable ASCII byte other than the
\* comma, read by the ASCII sub-lexer, carries the data tag, whatever was
\* chunked onto it later.
C21_DataTagOnDataLine ==
    (pc = "returned" /\ decoded_tokens # << >> /\ decoded_tokens[1].byte = << 131 >>) =>
        \A i \in 1 .. Len(hist) :
            (/\ starts_token(i)
             /\ hist[i].byte \in (32 .. 127) \ {44}
             /\ ~hist[i].in_string
             /\ ~hist[i].in_comment)
            => decoded_tokens[hist[i].tok].syntax = tagset.data.data.tag

\* the texts of the time variable
time_names == { << "t", "i" >>, << "t", "i", "m", "e" >> }

\* token k was started by a byte read outside strings and comments and
\* its text is ti or time
is_time_variable(k) ==
    /\ lower(decoded_tokens[k].token) \in time_names
    /\ \E i \in 1 .. Len(hist) :
           starts_token(i) /\ hist[i].tok = k /\ ~hist[i].in_string /\ ~hist[i].in_comment

\* C22: when _lex_line returns, every variable token with text ti or time
\* that is followed by another token carries the system-time tag, at every
\* position of the line, position 0 included.
C22_TimeVariableTagged ==
    pc = "returned" =>
        \A k \in 1 .. (Len(decoded_tokens) - 1) :
            is_time_variable(k) => decoded_tokens[k].syntax = tagset.system.time.tag

\* the step reads a payload byte of the set S
reads_byte_of(S) ==
    /\ Len(line') = Len(line) + 1
    /\ line'[Len(line')] \in S

\* the byte read by the step went to a token
byte_kept == hist'[Len(hist')].tok > 0

\* C23: within one call of _lex_line in_print never goes back to false; it
\* becomes true exactly when the command sub-lexer reads the byte 0x98 or
\* 0x99; and a space read while it is set is not discarded.
C23_InPrintMonotonic ==
    [][pc = "lexing" =>
          /\ print_cmd => print_cmd'
          /\ (~print_cmd /\ print_cmd') =>
                 (reads_byte_of({152, 153}) /\ ~string_decl /\ ~comment_cmd)
          /\ (reads_byte_of({152, 153}) /\ ~string_decl /\ ~comment_cmd) => print_cmd'
          /\ (print_cmd /\ reads_byte_of({32})) => byte_kept]_vars

\* C23: PRINT, then another command byte, then a space were read outside
\* strings and comments; in_print is still set and the space went to a
\* token.
C23_Witness ==
    /\ pc = "lexing"
    /\ Len(hist) = 3
    /\ hist[1].byte = 153 /\ hist[2].byte = 139 /\ hist[3].byte = 32
    /\ hist[2].in_print /\ hist[3].in_print /\ print_cmd
    /\ ~hist[3].in_string /\ ~hist[3].in_comment
    /\ hist[3].tok > 0
    /\ 32 \in { decoded_tokens[hist[3].tok].byte[j] :
                    j \in 1 .. Len(decoded_tokens[hist[3].tok].byte) }

\* the step reads one payload byte
reads_a_byte == Len(line') = Len(line) + 1

\* C24: a byte read while in_string is set leaves in_comment, in_print and
\* in_data as they are, appends no token and is concatenated onto the last
\* token, which is the one the opening quote started.
C24_StringBytesJoinTheString ==
    [][(pc = "lexing" /\ string_decl /\ reads_a_byte) =>
          /\ comment_cmd' = comment_cmd
          /\ print_cmd' = print_cmd
          /\ is_data_block' = is_data_block
          /\ pc' = "lexing"
          /\ decoded_tokens # << >>
          /\ Len(decoded_tokens') = Len(decoded_tokens)
          /\ decoded_tokens[Len(decoded_tokens)].byte[1] = 34
          /\ decoded_tokens'[Len(decoded_tokens)].byte =
                 Append(decoded_tokens[Len(decoded_tokens)].byte, line'[Len(line')])
          /\ string_decl' = (line'[Len(line')] # 34)]_vars

\* C24: an opening quote, the PRINT byte and a closing quote were read;
\* they are the one token of the line and in_print is not set.
C24_Witness ==
    /\ pc = "lexing"
    /\ line = << 34, 153, 34 >>
    /\ Len(decoded_tokens) = 1
    /\ decoded_tokens[1].byte = << 34, 153, 34 >>
    /\ hist[2].in_string /\ hist[3].in_string
    /\ ~print_cmd /\ ~string_decl

\* C25: with errors="replace" no call of _lex_line raises an exception,
\* whatever the payload: every call that was begun is still reading its
\* payload or has returned its token list.
C25_ReplaceModeNeverRaises ==
    replace_error => (exc = "none" /\ pc # "raised")

\* a pass of the loop of _detokenize_line reads the link pointer of a record
record_started == dpc = "loop" /\ links' # links

\* a pass of the loop of _detokenize_line yields a pair
pair_yielded == pairs' # pairs

\* C26: _detokenize_line returns on every buffer; a pass that yields a pair
\* moves the read position forward by at least 5; a record is started only
\* when at least 5 bytes remain; and a buffer of at least 2 bytes yields at
\* most (len(buffer) - 2) / 5 pairs, rounded down, a shorter one none.
C26_DetokenizerTerminates ==
    /\ <>(dpc = "done")
    /\ [][pair_yielded => pos' >= pos + 5]_vars
    /\ [][record_started => Len(binary) - pos >= 5]_vars
    /\ [](Len(binary) >= 2 => Len(pairs) <= (Len(binary) - 2) \div 5)
    /\ [](Len(binary) < 2 => pairs = << >>)

\* C26: a buffer of 12 bytes was read to its end and yielded two pairs, as
\* many as the bound allows.
C26_Witness ==
    /\ dpc = "done"
    /\ Len(binary) = 12
    /\ Len(pairs) = 2
    /\ pos = 12

\* C26, as stated: the bound (len(buffer) - 2) / 5 rounded down for every
\* buffer, those of fewer than 2 bytes included.
C26_AsStated ==
    /\ <>(dpc = "done")
    /\ [][pair_yielded => pos' >= pos + 5]_vars
    /\ [][record_started => Len(binary) - pos >= 5]_vars
    /\ [](Len(pairs) <= (Len(binary) - 2) \div 5)

\* C27: between the bytes of a call of _lex_line, and when it returns, the
\* quote counter is 0 or 1 and in_string is set exactly when it is 1; so no
\* byte other than a quote is read in string mode with the counter at 0;
\* and after every byte that was not skipped last_token is the last token
\* of the list.
C27_QuoteCounterAndLastToken ==
    /\ [](pc \in {"lexing", "returned"} =>
             /\ parenthesis \in {0, 1}
             /\ string_decl <=> (parenthesis = 1))
    /\ [][(pc = "lexing" /\ string_decl /\ reads_a_byte /\ line'[Len(line')] # 34)
              => parenthesis # 0]_vars
    /\ [][(pc = "lexing" /\ reads_a_byte /\ byte_kept)
              => (last_char' = Len(decoded_tokens') /\ last_char' > 0)]_vars

\* C27: a string was opened, closed and a second one opened; the counter is
\* back at 1, in_string is set and last_token is the second token.
C27_Witness ==
    /\ pc = "lexing"
    /\ line = << 34, 34, 34 >>
    /\ parenthesis = 1
    /\ string_decl
    /\ Len(decoded_tokens) = 2
    /\ last_char = 2
    /\ hist[3].tok = 2

====
